---------------------------- MODULE Spec2Model ----------------------------
(* A model of the LLM-compiler engine: the controller graph                 *)
(* (plan_and_schedule -> join -> decision), the lazy planner stream and the *)
(* Scheduler that dispatches the planned tasks on a thread pool.            *)
(*                                                                          *)
(* Strings are sequences of one-character strings, so that the regular      *)
(* expressions of the source are modelled by what they match.  A word that  *)
(* no expression looks into (a tool name, a key, the prefix "ERROR: ") is   *)
(* one element.                                                             *)
EXTENDS Integers, Sequences, FiniteSets, TLC

(***************************************************************************)
(* Bounds of the model.                                                    *)
(***************************************************************************)
\* largest task index the planner's output names
MaxIdx == 2
\* tasks the planner yields in one run, all rounds together
MaxTasks == 2
\* rounds of plan_and_schedule in one run (the source has no replan limit)
MaxRounds == 2
\* worker threads of the pool (ThreadPoolExecutor() takes it from the machine)
MaxWorkers == 2

\* lines of an LLM response
MaxLines == 2

Idx == 1..MaxIdx

(***************************************************************************)
(* Strings.                                                                *)
(***************************************************************************)
DigitStr == <<"0", "1", "2", "3", "4", "5", "6", "7", "8", "9">>

IsDigit(c) == \E d \in 1..10 : DigitStr[d] = c

DigitVal(c) == (CHOOSE d \in 1..10 : DigitStr[d] = c) - 1

\* the characters s[a..b] (empty when a > b)
Slice(s, a, b) == [i \in 1..(b - a + 1) |-> s[a + i - 1]]

\* the position after the run of digits that starts at i
RECURSIVE DigitsEnd(_, _)
DigitsEnd(s, i) ==
    IF i <= Len(s) /\ IsDigit(s[i]) THEN DigitsEnd(s, i + 1) ELSE i

\* int() of the digits s[a..b]
RECURSIVE IntOf(_, _, _)
IntOf(s, a, b) ==
    IF a > b THEN 0 ELSE 10 * IntOf(s, a, b - 1) + DigitVal(s[b])

\* A match of id_pattern = \$\{?(\d+)\}? that starts at position i of s:
\* [found, idx (group 1 as an int), next (the position after the match)].
MatchAt(s, i) ==
    IF i > Len(s) \/ s[i] # "$"
    THEN [found |-> FALSE, idx |-> 0, next |-> i + 1]
    ELSE LET j == IF i + 1 <= Len(s) /\ s[i + 1] = "{" THEN i + 2 ELSE i + 1
             k == DigitsEnd(s, j)
             e == IF k <= Len(s) /\ s[k] = "}" THEN k + 1 ELSE k
         IN  IF k > j
             THEN [found |-> TRUE, idx |-> IntOf(s, j, k - 1), next |-> e]
             ELSE [found |-> FALSE, idx |-> 0, next |-> i + 1]

\* re.sub(id_pattern, replace_match, arg) from position i on: a match whose
\* index is a key of task_results becomes str(task_results[idx]), any other
\* match stays as match.group(0).
RECURSIVE ResolveFrom(_, _, _)
ResolveFrom(s, i, results) ==
    IF i > Len(s) THEN <<>>
    ELSE LET m == MatchAt(s, i)
         IN  IF m.found
             THEN (IF m.idx \in DOMAIN results
                   THEN results[m.idx]
                   ELSE Slice(s, i, m.next - 1))
                  \o ResolveFrom(s, m.next, results)
             ELSE <<s[i]>> \o ResolveFrom(s, i + 1, results)

\* mutant: the pattern \$(\d+) of the plan parser, which knows no braces
MatchPlainAt(s, i) ==
    IF i > Len(s) \/ s[i] # "$"
    THEN [found |-> FALSE, idx |-> 0, next |-> i + 1]
    ELSE LET k == DigitsEnd(s, i + 1)
         IN  IF k > i + 1
             THEN [found |-> TRUE, idx |-> IntOf(s, i + 1, k - 1), next |-> k]
             ELSE [found |-> FALSE, idx |-> 0, next |-> i + 1]

RECURSIVE ResolvePlainFrom(_, _, _)
ResolvePlainFrom(s, i, results) ==
    IF i > Len(s) THEN <<>>
    ELSE LET m == MatchPlainAt(s, i)
         IN  IF m.found
             THEN (IF m.idx \in DOMAIN results
                   THEN results[m.idx]
                   ELSE Slice(s, i, m.next - 1))
                  \o ResolvePlainFrom(s, m.next, results)
             ELSE <<s[i]>> \o ResolvePlainFrom(s, i + 1, results)

_resolve_arg_unbraced(arg, task_results_) == ResolvePlainFrom(arg, 1, task_results_)

_resolve_arg(arg, task_results_) == ResolveFrom(arg, 1, task_results_)

\* the indices the pattern captures from position i on
RECURSIVE RefsFrom(_, _)
RefsFrom(s, i) ==
    IF i > Len(s) THEN {}
    ELSE LET m == MatchAt(s, i)
         IN  IF m.found THEN {m.idx} \cup RefsFrom(s, m.next)
             ELSE RefsFrom(s, i + 1)

Refs(s) == RefsFrom(s, 1)

\* str.strip(): leading and trailing white space removed
IsSpace(c) == c \in {" ", "\n"}

RECURSIVE LStrip(_)
LStrip(s) == IF s # <<>> /\ IsSpace(Head(s)) THEN LStrip(Tail(s)) ELSE s

RECURSIVE RStrip(_)
RStrip(s) ==
    IF s # <<>> /\ IsSpace(s[Len(s)]) THEN RStrip(SubSeq(s, 1, Len(s) - 1)) ELSE s

Strip(s) == RStrip(LStrip(s))

\* str.upper() on the letters the model's responses are written with
Lower == <<"a", "d", "e", "l", "n", "p", "r">>

UpperOf == <<"A", "D", "E", "L", "N", "P", "R">>

UpperChar(c) ==
    IF \E i \in DOMAIN Lower : Lower[i] = c
    THEN UpperOf[CHOOSE i \in DOMAIN Lower : Lower[i] = c]
    ELSE c

Upper(s) == [i \in DOMAIN s |-> UpperChar(s[i])]

(***************************************************************************)
(* Tasks, tools and messages.                                              *)
(***************************************************************************)
RECURSIVE SortedSeq(_)
SortedSeq(S) ==
    IF S = {} THEN <<>>
    ELSE LET m == CHOOSE x \in S : \A y \in S : x <= y
         IN  <<m>> \o SortedSeq(S \ {m})

\* f with key k bound to v (a dict assignment f[k] = v)
Put(f, k, v) == [x \in DOMAIN f \cup {k} |-> IF x = k THEN v ELSE f[x]]

\* the argument names of a task; every tool of the model takes one argument
ArgKeys == {"content"}

\* An argument value: literal text, then a placeholder for task n.  The
\* values drawn are "x" (n = 0), "$n" (n odd) and "x${n}" (n even).
ArgText(n) == IF n % 2 = 0 THEN <<"x">> ELSE <<>>

ArgRef(n) ==
    IF n = 0 THEN <<>>
    ELSE IF n % 2 = 1 THEN <<"$", DigitStr[n + 1]>>
    ELSE <<"$", "{", DigitStr[n + 1], "}">>

ArgOf(n) == ArgText(n) \o ArgRef(n)

\* the argument value that names the tasks of refs, in that order
RECURSIVE ArgCat(_)
ArgCat(refs) ==
    IF refs = <<>> THEN <<>> ELSE ArgOf(Head(refs)) \o ArgCat(Tail(refs))

ArgFor(refs) == IF refs = <<>> THEN ArgOf(0) ELSE ArgCat(refs)

\* the registered tools: "gen" returns a string, "fail" raises
ToolNames == {"gen", "fail"}

\* class Task
TaskOf(idx, tool, arg, deps) ==
    [idx |-> idx, tool |-> tool, args |-> [k \in ArgKeys |-> arg],
     dependencies |-> SortedSeq(deps)]

\* The tasks the planner yields in the model: a task whose argument names
\* each of its dependencies, a task whose argument names tasks that are no
\* dependencies of it, a failing leaf, and a task of the sentinel join, which
\* is no registered tool.
Task ==
    {TaskOf(i, "gen", ArgFor(SortedSeq(S)), S) : i \in Idx, S \in SUBSET Idx}
    \cup {TaskOf(i, "gen", ArgFor(SortedSeq(S)), {}) : i \in Idx, S \in (SUBSET Idx) \ {{}}}
    \cup {TaskOf(i, "fail", ArgFor(<<>>), {}) : i \in Idx}
    \cup {TaskOf(i, "join", ArgFor(<<>>), {}) : i \in Idx}

DepSet(task) == {task.dependencies[i] : i \in DOMAIN task.dependencies}

\* mutant: a name that is not registered is run like a tool that returns
\* nothing, and no error is recorded
ToolInvoke_anytool(name, resolved_args) ==
    IF name \notin ToolNames
    THEN [raised |-> FALSE, val |-> <<>>]
    ELSE IF name = "gen"
    THEN [raised |-> FALSE, val |-> <<"<">> \o resolved_args["content"] \o <<">">>]
    ELSE [raised |-> TRUE, val |-> <<"b", "o", "o", "m">>]

\* _execute_task: tools[task.tool] raises KeyError for a name that is not
\* registered (str(e) is the quoted name); otherwise tool.invoke(resolved_args),
\* whose outcome is a function of its input
ToolInvoke(name, resolved_args) ==
    IF name \notin ToolNames
    THEN [raised |-> TRUE, val |-> <<"'", name, "'">>]
    ELSE IF name = "gen"
    THEN [raised |-> FALSE, val |-> <<"<">> \o resolved_args["content"] \o <<">">>]
    ELSE [raised |-> TRUE, val |-> <<"b", "o", "o", "m">>]

\* f"ERROR: {str(e)}"
ErrorMsg(e) == <<"ERROR: ">> \o e

IsError(s) == Len(s) > 0 /\ s[1] = "ERROR: "

HumanMessage(content) == [type |-> "human", content |-> content]

AIMessage(content) == [type |-> "ai", content |-> content]

FunctionMessage(name, content, idx, args) ==
    [type |-> "function", name |-> name, content |-> content,
     idx |-> idx, args |-> args]

\* Scheduler._get_task_results: a later message of an index replaces an earlier one
RECURSIVE _get_task_results(_)
_get_task_results(msgs) ==
    IF msgs = <<>> THEN <<>>
    ELSE LET rest == _get_task_results(SubSeq(msgs, 1, Len(msgs) - 1))
             m == msgs[Len(msgs)]
         IN  IF m.type = "function" THEN Put(rest, m.idx, m.content) ELSE rest

(***************************************************************************)
(* The plan parsers.  The LLM's text is a sequence of characters and words; *)
(* a task of a parser has tool and values as such sequences, args as the    *)
(* list of its (key, value) items in insertion order, and dependencies as   *)
(* a list of indices.                                                       *)
(***************************************************************************)
Has(s, c) == \E i \in DOMAIN s : s[i] = c

\* str.find(c) and str.rfind(c) as positions from 1, 0 when c does not occur
Find(s, c) ==
    IF Has(s, c)
    THEN CHOOSE i \in DOMAIN s : s[i] = c /\ \A j \in 1..(i - 1) : s[j] # c
    ELSE 0

RFind(s, c) ==
    IF Has(s, c)
    THEN CHOOSE i \in DOMAIN s : s[i] = c /\ \A j \in (i + 1)..Len(s) : s[j] # c
    ELSE 0

\* str.split(c)
RECURSIVE Split(_, _)
Split(s, c) ==
    LET i == Find(s, c)
    IN  IF i = 0 THEN <<s>>
        ELSE <<Slice(s, 1, i - 1)>> \o Split(Slice(s, i + 1, Len(s)), c)

\* str.strip("\"'")
IsQuote(c) == c \in {"'", "\""}

RECURSIVE StripQuotes(_)
StripQuotes(s) ==
    IF s # <<>> /\ IsQuote(Head(s)) THEN StripQuotes(Tail(s))
    ELSE IF s # <<>> /\ IsQuote(s[Len(s)]) THEN StripQuotes(SubSeq(s, 1, Len(s) - 1))
    ELSE s

\* str.isdigit()
IsDigits(s) == s # <<>> /\ \A i \in DOMAIN s : IsDigit(s[i])

\* the position after the white space that starts at i (\s*)
RECURSIVE SkipSpaces(_, _)
SkipSpaces(s, i) ==
    IF i <= Len(s) /\ IsSpace(s[i]) THEN SkipSpaces(s, i + 1) ELSE i

\* args[key] = value on the list of items: a key that is present keeps its place
DictPut(d, k, v) ==
    IF \E i \in DOMAIN d : d[i].key = k
    THEN [i \in DOMAIN d |-> IF d[i].key = k THEN [key |-> k, value |-> v] ELSE d[i]]
    ELSE Append(d, [key |-> k, value |-> v])

\* the loop over args_str.split(","): an item without "=" is skipped, the
\* others are split at their first "=", key and value are stripped and the
\* value loses its quotes
RECURSIVE ArgsOfItems(_)
ArgsOfItems(items) ==
    IF items = <<>> THEN <<>>
    ELSE LET rest == ArgsOfItems(SubSeq(items, 1, Len(items) - 1))
             arg == items[Len(items)]
             e == Find(arg, "=")
         IN  IF e = 0 THEN rest
             ELSE DictPut(rest, Strip(Slice(arg, 1, e - 1)),
                          StripQuotes(Strip(Slice(arg, e + 1, Len(arg)))))

\* re.search(r"\$(\d+)", value): the first "$" that a digit follows
RECURSIVE SearchRef(_, _)
SearchRef(s, i) ==
    IF i > Len(s) THEN [found |-> FALSE, idx |-> 0]
    ELSE IF s[i] = "$" /\ DigitsEnd(s, i + 1) > i + 1
    THEN [found |-> TRUE, idx |-> IntOf(s, i + 1, DigitsEnd(s, i + 1) - 1)]
    ELSE SearchRef(s, i + 1)

\* the loop over the values: a value that starts with "$" gives the index
\* of its first placeholder
RECURSIVE ArgDeps(_)
ArgDeps(args) ==
    IF args = <<>> THEN <<>>
    ELSE LET value == Head(args).value
             m == SearchRef(value, 1)
         IN  (IF value # <<>> /\ value[1] = "$" /\ m.found THEN <<m.idx>> ELSE <<>>)
             \o ArgDeps(Tail(args))

\* \(deps:\s*\[([^\]]+)\]\) at position i of s; with empty_ok the group is
\* ([^\]]*).  [found, group].
DepsAt(s, i, empty_ok) ==
    IF i + 1 <= Len(s) /\ s[i] = "(" /\ s[i + 1] = "deps:"
    THEN LET j == SkipSpaces(s, i + 2)
         IN  IF j <= Len(s) /\ s[j] = "["
             THEN LET rest == Slice(s, j + 1, Len(s))
                      e == Find(rest, "]")
                  IN  IF /\ e > 0
                         /\ (empty_ok \/ e > 1)
                         /\ j + e + 1 <= Len(s)
                         /\ s[j + e + 1] = ")"
                      THEN [found |-> TRUE, group |-> Slice(rest, 1, e - 1)]
                      ELSE [found |-> FALSE, group |-> <<>>]
             ELSE [found |-> FALSE, group |-> <<>>]
    ELSE [found |-> FALSE, group |-> <<>>]

\* re.search of the deps clause in the line: the leftmost match
RECURSIVE SearchDeps(_, _)
SearchDeps(s, i) ==
    IF i > Len(s) THEN [found |-> FALSE, group |-> <<>>]
    ELSE IF DepsAt(s, i, FALSE).found THEN DepsAt(s, i, FALSE)
    ELSE SearchDeps(s, i + 1)

\* the loop over deps_str.split(","): the items that are digits, as ints
RECURSIVE ExplicitDeps(_)
ExplicitDeps(items) ==
    IF items = <<>> THEN <<>>
    ELSE LET dep == Strip(Head(items))
         IN  (IF IsDigits(dep) THEN <<IntOf(dep, 1, Len(dep))>> ELSE <<>>)
             \o ExplicitDeps(Tail(items))

SeqSet(q) == {q[i] : i \in DOMAIN q}

\* A CPython set of a few small ints is a hash table of 8 slots: a key k
\* goes to slot k % 8 and, from a taken slot i, on to slot (5 i + 1) % 8
\* (the perturbation is 0 for keys below 32).
RECURSIVE Probe(_, _)
Probe(table, i) == IF i \in DOMAIN table THEN Probe(table, (5 * i + 1) % 8) ELSE i

\* the table after the keys of q were added in that order
RECURSIVE SetTable(_)
SetTable(q) ==
    IF q = <<>> THEN <<>>
    ELSE LET table == SetTable(SubSeq(q, 1, Len(q) - 1))
             k == q[Len(q)]
         IN  IF \E i \in DOMAIN table : table[i] = k THEN table
             ELSE Put(table, Probe(table, k % 8), k)

\* list(dependencies) of the set that got the keys of q in that order: the
\* keys in the order of their slots
SetList(q) ==
    LET table == SetTable(q)
        slots == SortedSeq(DOMAIN table)
    IN  [n \in DOMAIN slots |-> table[slots[n]]]

\* Planner._parse_tasks on the lines that are left, with seen_indices:
\* the list of tasks
RECURSIVE ParseLines(_, _)
ParseLines(lines, seen_indices) ==
    IF lines = <<>> THEN <<>>
    ELSE LET line == Strip(Head(lines))
             k == DigitsEnd(line, 1)
         IN  IF ~(k > 1 /\ k <= Len(line) /\ line[k] = ".")
             THEN ParseLines(Tail(lines), seen_indices)
             ELSE LET idx == IntOf(line, 1, k - 1)
                      task_content == Strip(Slice(line, k + 1, Len(line)))
                  IN  IF idx \in seen_indices
                      THEN ParseLines(Tail(lines), seen_indices)
                      ELSE IF ~Has(task_content, "(") \/ ~Has(task_content, ")")
                      THEN ParseLines(Tail(lines), seen_indices \cup {idx})
                      ELSE LET o == Find(task_content, "(")
                               c == RFind(task_content, ")")
                               tool_name == Strip(Slice(task_content, 1, o - 1))
                               args_str == Slice(task_content, o + 1, c - 1)
                               args == IF args_str = <<>> THEN <<>>
                                       ELSE ArgsOfItems(Split(args_str, ","))
                               deps_match == SearchDeps(line, 1)
                               dependencies ==
                                   ArgDeps(args) \o
                                   (IF deps_match.found
                                    THEN ExplicitDeps(Split(deps_match.group, ","))
                                    ELSE <<>>)
                           IN  <<[idx |-> idx, tool |-> tool_name, args |-> args,
                                  dependencies |-> dependencies]>>
                               \o ParseLines(Tail(lines), seen_indices \cup {idx})

_parse_tasks(content) == ParseLines(Split(content, "\n"), {})

\* checkpoint_3 Planner._parse_task: <<>> for None, <<task>> for a task.  The
\* line must start with digits, ".", at least one character that is not "(",
\* "(", at least one character that is not ")", ")"; the deps clause is
\* taken only right after that.
_parse_task(raw) ==
    LET line == Strip(raw)
        k == DigitsEnd(line, 1)
        after_dot == Slice(line, k + 1, Len(line))
        o == Find(after_dot, "(")
        after_open == Slice(after_dot, o + 1, Len(after_dot))
        c == Find(after_open, ")")
    IN  IF ~(k > 1 /\ k <= Len(line) /\ line[k] = "." /\ o >= 2 /\ c >= 2)
        THEN <<>>
        ELSE LET tool_name == Slice(after_dot, 1, o - 1)
                 args_str == Slice(after_open, 1, c - 1)
                 tail == Slice(after_open, c + 1, Len(after_open))
                 d == DepsAt(tail, SkipSpaces(tail, 1), TRUE)
                 args == IF Strip(args_str) = <<>> THEN <<>>
                         ELSE ArgsOfItems(Split(args_str, ","))
                 dependencies ==
                     ArgDeps(args) \o
                     (IF d.found /\ d.group # <<>>
                      THEN ExplicitDeps(Split(d.group, ","))
                      ELSE <<>>)
             IN  <<[idx |-> IntOf(line, 1, k - 1), tool |-> Strip(tool_name),
                    args |-> args, dependencies |-> SetList(dependencies)]>>

(***************************************************************************)
(* State.                                                                  *)
(***************************************************************************)
VARIABLES
    messages,        \* State.messages, the conversation log
    node,            \* the node of the controller graph that runs or runs next
    round,           \* rounds of plan_and_schedule entered so far
    max_workers,     \* size of the thread pool
    pc,              \* the calling thread's position in schedule_tasks
    task_results,    \* the shared result map of this round
    processed_tasks, \* tasks taken from the planner in this round
    futures,         \* one entry per submitted task: [fn, st, input]
    returned,        \* the value schedule_tasks returned last
    planned,         \* tasks the planner yielded in this run
    invocations,     \* per index: tool invocations begun in this run
    writes,          \* per index: assignments to task_results[idx] in this run
    firstReadyAtYield, \* when the newest task was yielded: had the first ready
                     \* task before it begun ("began"), not yet ("queued"), or
                     \* was there none ("none")
    error,           \* the exception that ended the run, "none" while it runs
    needs_replan,    \* State.needs_replan
    response,        \* the content of the decision step's last LLM response
    planner_prompt   \* the prompt the planner built in this round

\* one run of a planner's generator over the text that the LLM streams
VARIABLES
    planner,         \* the generator that runs: "stream" (Planner.stream),
                     \* "plan_tasks" (SimplePlanner.plan_tasks with
                     \* checkpoint_3's _parse_task), "none" when none runs
    llm_text,        \* the whole text the LLM produces in this run
    sent,            \* how much of it the chunks delivered so far
    buffer,          \* the generator's local buffer
    seen_tasks,      \* the local seen_tasks of Planner.stream
    yielded,         \* what the generator yielded: <<>> for None, <<task>>
    generator        \* "off", "streaming", "ended"

plannerVars == <<planner, llm_text, sent, buffer, seen_tasks, yielded, generator>>

schedulerVars ==
    <<messages, node, round, max_workers, pc, task_results, processed_tasks,
      futures, returned, planned, invocations, writes, firstReadyAtYield, error,
      needs_replan, response, planner_prompt>>

vars ==
    <<messages, node, round, max_workers, pc, task_results, processed_tasks,
      futures, returned, planned, invocations, writes, firstReadyAtYield, error,
      needs_replan, response, planner_prompt,
      planner, llm_text, sent, buffer, seen_tasks, yielded, generator>>

NoInput == [k \in ArgKeys |-> <<>>]

\* no prompt was built yet
NoPrompt == [template |-> "none", user_query |-> <<>>]

\* the content of the last HumanMessage of the log, "" when there is none
RECURSIVE LastContent(_, _)
LastContent(msgs, type) ==
    IF msgs = <<>> THEN <<>>
    ELSE IF msgs[Len(msgs)].type = type THEN msgs[Len(msgs)].content
    ELSE LastContent(SubSeq(msgs, 1, Len(msgs) - 1), type)

\* SimplePlanner.plan_tasks: the prompt is PLANNER_PROMPT_TEMPLATE, formatted
\* with the tools and the user query, in every round
PlanPrompt(msgs) ==
    [template |-> "PLANNER_PROMPT_TEMPLATE", user_query |-> LastContent(msgs, "human")]

Launched(p) == futures[p].st \in {"running", "done"}

\* mutant: all() in place of any(): one present dependency makes the task ready
NotReady_all(task, results) ==
    /\ task.dependencies # <<>>
    /\ \A i \in DOMAIN task.dependencies : task.dependencies[i] \notin DOMAIN results

\* the test of schedule_tasks and of the waiter's loop
NotReady(task, results) ==
    /\ task.dependencies # <<>>
    /\ \E i \in DOMAIN task.dependencies : task.dependencies[i] \notin DOMAIN results

\* workers that are inside a work item
Busy == Cardinality({p \in DOMAIN futures : futures[p].st \in {"waiting", "running"}})

\* mutant: a work item is taken only when every earlier one has ended, as
\* when the tasks are run one after the other in the calling thread
HeadOfQueue_serial(p) ==
    /\ futures[p].st = "queued"
    /\ \A q \in DOMAIN futures : q < p => futures[q].st = "done"

\* mutant: the newest work item is taken first
HeadOfQueue_lifo(p) ==
    /\ futures[p].st = "queued"
    /\ \A q \in DOMAIN futures : q > p => futures[q].st # "queued"

\* the pool's queue is first in, first out
HeadOfQueue(p) ==
    /\ futures[p].st = "queued"
    /\ \A q \in DOMAIN futures : q < p => futures[q].st # "queued"

\* the submitted tasks that were ready when they arrived
ReadyOnArrival == {p \in DOMAIN futures : futures[p].fn = "_schedule_task"}

FirstReady == CHOOSE p \in ReadyOnArrival : \A q \in ReadyOnArrival : p <= q

Init ==
    /\ messages = <<HumanMessage(<<"q">>)>>
    /\ node = "plan_and_schedule"
    /\ round = 1
    /\ max_workers \in 1..MaxWorkers
    /\ pc = "start"
    /\ task_results = <<>>
    /\ processed_tasks = <<>>
    /\ futures = <<>>
    /\ returned = <<>>
    /\ planned = 0
    /\ invocations = [i \in {} |-> 0]
    /\ writes = [i \in {} |-> 0]
    /\ firstReadyAtYield = "none"
    /\ error = "none"
    /\ needs_replan = FALSE
    /\ response = <<>>
    /\ planner_prompt = NoPrompt
    /\ planner = "none"
    /\ llm_text = <<>>
    /\ sent = 0
    /\ buffer = <<>>
    /\ seen_tasks = {}
    /\ yielded = <<>>
    /\ generator = "off"

Count(f, k) == IF k \in DOMAIN f THEN f[k] ELSE 0

(***************************************************************************)
(* The calling thread: LLMCompiler._plan_and_schedule runs the planner's   *)
(* generator and Scheduler.schedule_tasks.                                 *)
(***************************************************************************)
\* mutant: the round starts from an empty result map
ScheduleBegin_fresh ==
    /\ node = "plan_and_schedule" /\ pc = "start"
    /\ task_results' = <<>>
    /\ processed_tasks' = <<>>
    /\ futures' = <<>>
    /\ firstReadyAtYield' = "none"
    /\ planner_prompt' = PlanPrompt(messages)
    /\ pc' = "next"
    /\ UNCHANGED <<messages, node, round, max_workers, returned, planned,
                   invocations, writes, error, needs_replan, response,
                   plannerVars>>

\* _plan_and_schedule creates the planner's generator, whose prompt is built
\* when schedule_tasks asks for the first task, and schedule_tasks runs up to
\* its loop: the result map is rebuilt from the log
ScheduleBegin ==
    /\ node = "plan_and_schedule" /\ pc = "start"
    /\ task_results' = _get_task_results(messages)
    /\ processed_tasks' = <<>>
    /\ futures' = <<>>
    /\ firstReadyAtYield' = "none"
    /\ planner_prompt' = PlanPrompt(messages)
    /\ pc' = "next"
    /\ UNCHANGED <<messages, node, round, max_workers, returned, planned,
                   invocations, writes, error, needs_replan, response,
                   plannerVars>>

\* "for task in tasks": the generator yields the next task of the stream
PlannerYield(task) ==
    /\ pc = "next"
    /\ planned < MaxTasks
    /\ processed_tasks' = Append(processed_tasks, task)
    /\ planned' = planned + 1
    /\ firstReadyAtYield' =
           IF ReadyOnArrival = {} THEN "none"
           ELSE IF Launched(FirstReady) THEN "began" ELSE "queued"
    /\ pc' = "dispatch"
    /\ UNCHANGED <<messages, node, round, max_workers, task_results, futures,
                   returned, invocations, writes, error,
                   needs_replan, response, planner_prompt, plannerVars>>

\* mutant: the task is only collected; nothing is submitted while the
\* planner streams
Dispatch_collect ==
    /\ pc = "dispatch"
    /\ pc' = "next"
    /\ UNCHANGED <<messages, node, round, max_workers, task_results,
                   processed_tasks, futures, returned, planned, invocations,
                   writes, firstReadyAtYield, error,
                   needs_replan, response, planner_prompt, plannerVars>>

\* mutant: every task is handed to a waiter, ready or not
Dispatch_allwait ==
    /\ pc = "dispatch"
    /\ LET task == processed_tasks[Len(processed_tasks)]
           fn == "_schedule_pending_task"
       IN  futures' = Append(futures, [fn |-> fn, st |-> "queued", input |-> NoInput])
    /\ pc' = "next"
    /\ UNCHANGED <<messages, node, round, max_workers, task_results,
                   processed_tasks, returned, planned, invocations, writes,
                   firstReadyAtYield, error,
                   needs_replan, response, planner_prompt, plannerVars>>

\* the body of the loop: executor.submit of the waiter or of the task itself
Dispatch ==
    /\ pc = "dispatch"
    /\ LET task == processed_tasks[Len(processed_tasks)]
           fn == IF NotReady(task, task_results)
                 THEN "_schedule_pending_task" ELSE "_schedule_task"
       IN  futures' = Append(futures, [fn |-> fn, st |-> "queued", input |-> NoInput])
    /\ pc' = "next"
    /\ UNCHANGED <<messages, node, round, max_workers, task_results,
                   processed_tasks, returned, planned, invocations, writes,
                   firstReadyAtYield, error,
                   needs_replan, response, planner_prompt, plannerVars>>

\* the LLM's stream raises while schedule_tasks asks the generator for the
\* next task: the exception leaves the loop inside "with ThreadPoolExecutor()"
PlannerFail ==
    /\ node = "plan_and_schedule" /\ pc = "next"
    /\ pc' = "raise"
    /\ UNCHANGED <<messages, node, round, max_workers, task_results,
                   processed_tasks, futures, returned, planned, invocations,
                   writes, firstReadyAtYield, error,
                   needs_replan, response, planner_prompt, plannerVars>>

\* mutant: the pool is left without waiting for its work items
ExecutorExit_nowait ==
    /\ pc = "raise"
    /\ error' = "LLMError"
    /\ pc' = "failed"
    /\ UNCHANGED <<messages, node, round, max_workers, task_results,
                   processed_tasks, futures, returned, planned, invocations,
                   writes, firstReadyAtYield,
                   needs_replan, response, planner_prompt, plannerVars>>

\* the executor's __exit__ is shutdown(wait=True): it returns when every
\* submitted work item has ended; then the exception leaves schedule_tasks,
\* _plan_and_schedule and graph.invoke
ExecutorExit ==
    /\ pc = "raise"
    /\ \A p \in DOMAIN futures : futures[p].st = "done"
    /\ error' = "LLMError"
    /\ pc' = "failed"
    /\ UNCHANGED <<messages, node, round, max_workers, task_results,
                   processed_tasks, futures, returned, planned, invocations,
                   writes, firstReadyAtYield,
                   needs_replan, response, planner_prompt, plannerVars>>

\* the generator is exhausted: the loop ends and wait(futures) begins
PlannerEnd ==
    /\ pc = "next"
    /\ pc' = "wait"
    /\ UNCHANGED <<messages, node, round, max_workers, task_results,
                   processed_tasks, futures, returned, planned, invocations,
                   writes, firstReadyAtYield, error,
                   needs_replan, response, planner_prompt, plannerVars>>

\* mutant: the message carries the arguments as they were resolved
RECURSIVE ToolMessagesOf_resolved(_, _)
ToolMessagesOf_resolved(tasks, results) ==
    IF tasks = <<>> THEN <<>>
    ELSE LET task == Head(tasks)
         IN  (IF task.idx \in DOMAIN results
              THEN <<FunctionMessage(task.tool, results[task.idx], task.idx,
                       [a \in DOMAIN task.args |-> _resolve_arg(task.args[a], results)])>>
              ELSE <<>>)
             \o ToolMessagesOf_resolved(Tail(tasks), results)

\* the messages built after wait(futures), in the order of processed_tasks
RECURSIVE ToolMessagesOf(_, _)
ToolMessagesOf(tasks, results) ==
    IF tasks = <<>> THEN <<>>
    ELSE LET task == Head(tasks)
         IN  (IF task.idx \in DOMAIN results
              THEN <<FunctionMessage(task.tool, results[task.idx], task.idx, task.args)>>
              ELSE <<>>)
             \o ToolMessagesOf(Tail(tasks), results)

\* mutant: the node returns the task messages alone, as
\* State(messages=task_messages) does
PlanAndScheduleMessages_replace(msgs, task_messages) == task_messages

\* messages = [*messages, *task_messages]
PlanAndScheduleMessages(msgs, task_messages) == msgs \o task_messages

\* mutant: the messages are built without wait(futures)
ScheduleReturn_nowait ==
    /\ pc = "wait"
    /\ returned' = ToolMessagesOf(processed_tasks, task_results)
    /\ messages' = PlanAndScheduleMessages(messages, returned')
    /\ node' = "join"
    /\ pc' = "idle"
    /\ needs_replan' = FALSE
    /\ UNCHANGED <<round, max_workers, task_results, processed_tasks, futures,
                   planned, invocations, writes, firstReadyAtYield, error,
                   response, planner_prompt, plannerVars>>

\* wait(futures) returns, schedule_tasks returns its messages and
\* _plan_and_schedule appends them to the log
ScheduleReturn ==
    /\ pc = "wait"
    /\ \A p \in DOMAIN futures : futures[p].st = "done"
    /\ returned' = ToolMessagesOf(processed_tasks, task_results)
    /\ messages' = PlanAndScheduleMessages(messages, returned')
    /\ node' = "join"
    /\ pc' = "idle"
    /\ needs_replan' = FALSE
    /\ UNCHANGED <<round, max_workers, task_results, processed_tasks, futures,
                   planned, invocations, writes, firstReadyAtYield, error,
                   response, planner_prompt, plannerVars>>

(***************************************************************************)
(* The pool's workers.                                                     *)
(***************************************************************************)
\* _schedule_task up to tool.invoke: the tool is looked up, the arguments
\* are resolved against the result map as it is now and the tool is entered;
\* for a name that is not registered the lookup fails before that
Launch(p) ==
    LET task == processed_tasks[p]
    IN  IF task.tool \in ToolNames
        THEN /\ futures' = [futures EXCEPT
                    ![p].st = "running",
                    ![p].input = [k \in DOMAIN task.args |->
                                     _resolve_arg(task.args[k], task_results)]]
             /\ invocations' =
                    Put(invocations, task.idx, Count(invocations, task.idx) + 1)
        ELSE /\ futures' = [futures EXCEPT ![p].st = "running"]
             /\ UNCHANGED invocations

\* a free worker takes a ready task from the queue and starts it
StartTask(p) ==
    /\ p \in DOMAIN futures
    /\ HeadOfQueue(p)
    /\ futures[p].fn = "_schedule_task"
    /\ Busy < max_workers
    /\ Launch(p)
    /\ UNCHANGED <<messages, node, round, max_workers, pc, task_results,
                   processed_tasks, returned, planned, writes, firstReadyAtYield, error,
                   needs_replan, response, planner_prompt, plannerVars>>

\* a free worker takes a waiter from the queue
StartWaiter(p) ==
    /\ p \in DOMAIN futures
    /\ HeadOfQueue(p)
    /\ futures[p].fn = "_schedule_pending_task"
    /\ Busy < max_workers
    /\ futures' = [futures EXCEPT ![p].st = "waiting"]
    /\ UNCHANGED <<messages, node, round, max_workers, pc, task_results,
                   processed_tasks, returned, planned, invocations, writes,
                   firstReadyAtYield, error,
                   needs_replan, response, planner_prompt, plannerVars>>

\* the waiter finds a dependency missing: time.sleep(retry_after); continue
WaiterSleep(p) ==
    /\ p \in DOMAIN futures
    /\ futures[p].st = "waiting"
    /\ NotReady(processed_tasks[p], task_results)
    /\ UNCHANGED vars

\* mutant: the waiter calls _schedule_task without looking at the result map
WaiterProceed_nocheck(p) ==
    /\ p \in DOMAIN futures
    /\ futures[p].st = "waiting"
    /\ Launch(p)
    /\ UNCHANGED <<messages, node, round, max_workers, pc, task_results,
                   processed_tasks, returned, planned, writes, firstReadyAtYield, error,
                   needs_replan, response, planner_prompt, plannerVars>>

\* the waiter finds every dependency present and calls _schedule_task
WaiterProceed(p) ==
    /\ p \in DOMAIN futures
    /\ futures[p].st = "waiting"
    /\ ~NotReady(processed_tasks[p], task_results)
    /\ Launch(p)
    /\ UNCHANGED <<messages, node, round, max_workers, pc, task_results,
                   processed_tasks, returned, planned, writes, firstReadyAtYield, error,
                   needs_replan, response, planner_prompt, plannerVars>>

\* mutant: no except clause; an exception of the tool ends the work item and
\* nothing is stored
FinishTask_noexcept(p) ==
    /\ p \in DOMAIN futures
    /\ futures[p].st = "running"
    /\ LET task == processed_tasks[p]
           out == ToolInvoke(task.tool, futures[p].input)
       IN  IF out.raised
           THEN UNCHANGED <<task_results, writes>>
           ELSE /\ task_results' = Put(task_results, task.idx, out.val)
                /\ writes' = Put(writes, task.idx, Count(writes, task.idx) + 1)
    /\ futures' = [futures EXCEPT ![p].st = "done"]
    /\ UNCHANGED <<messages, node, round, max_workers, pc, processed_tasks,
                   returned, planned, invocations, firstReadyAtYield, error,
                   needs_replan, response, planner_prompt, plannerVars>>

\* mutant: the result replaces the map instead of being added to it
FinishTask_evict(p) ==
    /\ p \in DOMAIN futures
    /\ futures[p].st = "running"
    /\ LET task == processed_tasks[p]
           out == ToolInvoke(task.tool, futures[p].input)
       IN  /\ task_results' = Put(<<>>, task.idx,
                                  IF out.raised THEN ErrorMsg(out.val) ELSE out.val)
           /\ writes' = Put(writes, task.idx, Count(writes, task.idx) + 1)
    /\ futures' = [futures EXCEPT ![p].st = "done"]
    /\ UNCHANGED <<messages, node, round, max_workers, pc, processed_tasks,
                   returned, planned, invocations, firstReadyAtYield, error,
                   needs_replan, response, planner_prompt, plannerVars>>

\* tool.invoke returns or raises; _schedule_task stores the result or the
\* error string, and the future is done
FinishTask(p) ==
    /\ p \in DOMAIN futures
    /\ futures[p].st = "running"
    /\ LET task == processed_tasks[p]
           out == ToolInvoke(task.tool, futures[p].input)
       IN  /\ task_results' = Put(task_results, task.idx,
                                  IF out.raised THEN ErrorMsg(out.val) ELSE out.val)
           /\ writes' = Put(writes, task.idx, Count(writes, task.idx) + 1)
    /\ futures' = [futures EXCEPT ![p].st = "done"]
    /\ UNCHANGED <<messages, node, round, max_workers, pc, processed_tasks,
                   returned, planned, invocations, firstReadyAtYield, error,
                   needs_replan, response, planner_prompt, plannerVars>>

(***************************************************************************)
(* The controller graph.                                                   *)
(***************************************************************************)
\* isinstance(message, ToolMessage): the class test of LLMCompiler._join
IsToolMessage(m) == m.type = "tool"

\* the dict comprehension of _join: tool_call_id -> content over the
\* ToolMessage instances of the log, a later message replacing an earlier
\* one (the scheduler sets tool_call_id = task.idx, the record's idx)
RECURSIVE JoinTaskResults(_)
JoinTaskResults(msgs) ==
    IF msgs = <<>> THEN <<>>
    ELSE LET rest == JoinTaskResults(SubSeq(msgs, 1, Len(msgs) - 1))
             m == msgs[Len(msgs)]
         IN  IF IsToolMessage(m) THEN Put(rest, m.idx, m.content) ELSE rest

\* the "Task {idx}: {result}" entries in the order of a list of indices
RECURSIVE Entries(_, _)
Entries(order, results) ==
    IF order = <<>> THEN <<>>
    ELSE <<[idx |-> Head(order), result |-> results[Head(order)]]>>
         \o Entries(Tail(order), results)

\* results_text of _join: the entries of sorted(task_results.items(),
\* key=lambda x: int(x[0])), which "\n\n".join makes one text of
results_text(msgs) ==
    LET task_results_ == JoinTaskResults(msgs)
    IN  Entries(SortedSeq(DOMAIN task_results_), task_results_)

\* the entries of the summary of Joiner.join, which takes every message
\* with an "idx" in additional_kwargs and sorts the items by key
JoinerSummary(msgs) ==
    Entries(SortedSeq(DOMAIN _get_task_results(msgs)), _get_task_results(msgs))

\* the summary of Joiner.join for an empty result map
NoTasksSummary == <<"No tasks were executed.">>

\* what the LLM may answer to the join prompt
JoinResponses == {<<"a">>, NoTasksSummary}

\* LLMCompiler._join: the LLM's answer to the join prompt is appended to the
\* log, whatever the results are; the State it returns is built from the
\* messages alone
Join ==
    /\ node = "join" /\ error = "none"
    /\ \E content \in JoinResponses : messages' = Append(messages, AIMessage(content))
    /\ node' = "decide"
    /\ needs_replan' = FALSE
    /\ UNCHANGED <<round, max_workers, pc, task_results, processed_tasks,
                   futures, returned, planned, invocations, writes,
                   firstReadyAtYield, error, response, planner_prompt, plannerVars>>

\* what the LLM may answer to the should-continue prompt
Responses ==
    { <<"R", "E", "P", "L", "A", "N">>,
      <<" ", "r", "e", "p", "l", "a", "n", "\n">>,
      <<"E", "N", "D">>,
      <<"R", "E", "P", "L", "A", "N", ".">>,
      <<>> }

\* mutant: the response is compared as it came
Decision_raw(content) == content

\* decision = response.content.strip().upper()
Decision(content) == Upper(Strip(content))

REPLAN == <<"R", "E", "P", "L", "A", "N">>

\* mutant: a controller that counts the rounds and stops replanning early
Replan_capped ==
    /\ node = "decide" /\ error = "none"
    /\ round < MaxRounds - 1
    /\ \E content \in Responses :
          /\ Decision(content) = REPLAN
          /\ response' = content
    /\ node' = "plan_and_schedule"
    /\ pc' = "start"
    /\ round' = round + 1
    /\ UNCHANGED <<messages, max_workers, task_results, processed_tasks,
                   futures, returned, planned, invocations, writes,
                   firstReadyAtYield, error, needs_replan, planner_prompt,
                   plannerVars>>

\* LLMCompiler._should_continue answers "plan_and_schedule": the conditional
\* edge leads back to the planner; the state is not written
Replan ==
    /\ node = "decide" /\ error = "none"
    /\ round < MaxRounds
    /\ \E content \in Responses :
          /\ Decision(content) = REPLAN
          /\ response' = content
    /\ node' = "plan_and_schedule"
    /\ pc' = "start"
    /\ round' = round + 1
    /\ UNCHANGED <<messages, max_workers, task_results, processed_tasks,
                   futures, returned, planned, invocations, writes,
                   firstReadyAtYield, error, needs_replan, planner_prompt,
                   plannerVars>>

\* LLMCompiler._should_continue answers END
End ==
    /\ node = "decide" /\ error = "none"
    /\ \E content \in Responses :
          /\ Decision(content) # REPLAN
          /\ response' = content
    /\ node' = "end"
    /\ UNCHANGED <<messages, round, max_workers, pc, task_results,
                   processed_tasks, futures, returned, planned, invocations,
                   writes, firstReadyAtYield, error, needs_replan, planner_prompt,
                   plannerVars>>

\* self.llm.invoke raises in _join or in _should_continue: the exception
\* leaves the node and graph.invoke
InvokeFail(at) ==
    /\ node = at /\ error = "none"
    /\ error' = "LLMError"
    /\ UNCHANGED <<messages, node, round, max_workers, pc, task_results,
                   processed_tasks, futures, returned, planned, invocations,
                   writes, firstReadyAtYield,
                   needs_replan, response, planner_prompt, plannerVars>>

JoinFail == InvokeFail("join")

DecideFail == InvokeFail("decide")

Positions == 1..MaxTasks

Next ==
    \/ ScheduleBegin
    \/ \E task \in Task : PlannerYield(task)
    \/ Dispatch
    \/ PlannerEnd
    \/ ScheduleReturn
    \/ \E p \in Positions : StartTask(p)
    \/ \E p \in Positions : StartWaiter(p)
    \/ \E p \in Positions : WaiterSleep(p)
    \/ \E p \in Positions : WaiterProceed(p)
    \/ \E p \in Positions : FinishTask(p)
    \/ Join
    \/ Replan
    \/ End
    \/ PlannerFail
    \/ ExecutorExit
    \/ JoinFail
    \/ DecideFail

Spec == Init /\ [][Next]_vars

\* every thread that can take a step eventually takes one
FairSpec == Spec /\ WF_vars(Next)

(***************************************************************************)
(* The planners' generators over a streamed response.                      *)
(***************************************************************************)
\* a task line in the format of the prompt: N. tool(content='value')
TaskLine(i, tool, value) ==
    <<DigitStr[i + 1], ".", " ", tool, "(", "content", "=", "'">> \o value \o <<"'", ")">>

\* a task line with an empty argument list: "1. gen()"
NoArgsLine(i) == <<DigitStr[i + 1], ".", " ", "gen", "(", ")">>

\* the deps clause of the format for one index
DepsClause(i) == <<" ", "(", "deps:", " ", "[", DigitStr[i + 1], "]", ")">>

\* the lines the LLM writes with: two well-formed tasks, a placeholder after
\* other text, an explicit deps clause, a line cut short, an unknown tool, a
\* reference to a later task, a placeholder together with a deps clause, an
\* empty line, a task without arguments, alone and with a deps clause
PlanLines ==
    { TaskLine(1, "gen", <<"x">>),
      TaskLine(2, "gen", <<"$", "1">>),
      TaskLine(2, "gen", <<"x", "$", "{", "1", "}">>),
      TaskLine(2, "gen", <<"x">>) \o DepsClause(1),
      <<"2", ".", " ", "BROKEN", "(">>,
      TaskLine(1, "nope", <<"x">>),
      TaskLine(1, "gen", <<"$", "2">>),
      TaskLine(9, "gen", <<"$", "8">>) \o DepsClause(1),
      NoArgsLine(1),
      NoArgsLine(2) \o DepsClause(1),
      <<>> }

RECURSIVE JoinLines(_)
JoinLines(lines) ==
    IF Len(lines) = 1 THEN lines[1]
    ELSE lines[1] \o <<"\n">> \o JoinLines(Tail(lines))

\* the responses: up to MaxLines lines, the last one with or without "\n"
Plans ==
    UNION { { JoinLines(lines), JoinLines(lines) \o <<"\n">> } :
            lines \in UNION { [1..n -> PlanLines] : n \in 1..MaxLines } }

\* the tasks of a list that seen_tasks does not hold yet
RECURSIVE Unseen(_, _)
Unseen(tasks, seen) ==
    IF tasks = <<>> THEN <<>>
    ELSE IF Head(tasks).idx \in seen THEN Unseen(Tail(tasks), seen)
    ELSE <<<<Head(tasks)>>>> \o Unseen(Tail(tasks), seen \cup {Head(tasks).idx})

\* "for line in lines: if line.strip(): yield self._parse_task_line(line)"
RECURSIVE ParseEach(_)
ParseEach(lines) ==
    IF lines = <<>> THEN <<>>
    ELSE (IF Strip(Head(lines)) # <<>> THEN <<_parse_task(Head(lines))>> ELSE <<>>)
         \o ParseEach(Tail(lines))

\* the tasks among what a generator yielded (the scheduler skips None)
RECURSIVE TasksOf(_)
TasksOf(ys) ==
    IF ys = <<>> THEN <<>> ELSE Head(ys) \o TasksOf(Tail(ys))

PlannerInit ==
    /\ messages = <<HumanMessage(<<"q">>)>>
    /\ node = "plan_and_schedule"
    /\ round = 1
    /\ max_workers = 1
    /\ pc = "next"
    /\ task_results = <<>>
    /\ processed_tasks = <<>>
    /\ futures = <<>>
    /\ returned = <<>>
    /\ planned = 0
    /\ invocations = [i \in {} |-> 0]
    /\ writes = [i \in {} |-> 0]
    /\ firstReadyAtYield = "none"
    /\ error = "none"
    /\ needs_replan = FALSE
    /\ response = <<>>
    /\ planner_prompt = PlanPrompt(messages)
    /\ planner \in {"stream", "plan_tasks"}
    /\ llm_text \in Plans
    /\ sent = 0
    /\ buffer = <<>>
    /\ seen_tasks = {}
    /\ yielded = <<>>
    /\ generator = "streaming"

\* Planner.stream, one chunk of n characters: the whole buffer is parsed
\* again and the tasks whose idx is new are yielded
StreamChunk(n) ==
    /\ planner = "stream" /\ generator = "streaming"
    /\ sent + n <= Len(llm_text)
    /\ LET chunk == Slice(llm_text, sent + 1, sent + n)
           tasks == _parse_tasks(buffer \o chunk)
           new == Unseen(tasks, seen_tasks)
       IN  /\ buffer' = buffer \o chunk
           /\ yielded' = yielded \o new
           /\ seen_tasks' = seen_tasks \cup {t.idx : t \in SeqSet(TasksOf(new))}
    /\ sent' = sent + n
    /\ UNCHANGED <<planner, llm_text, generator, schedulerVars>>

\* Planner.stream: the LLM's stream ends and the generator returns
StreamEnd ==
    /\ planner = "stream" /\ generator = "streaming"
    /\ sent = Len(llm_text)
    /\ generator' = "ended"
    /\ UNCHANGED <<planner, llm_text, sent, buffer, seen_tasks, yielded, schedulerVars>>

\* SimplePlanner.plan_tasks, one chunk of n characters: the lines that the
\* chunk completes are parsed, the rest stays in the buffer
PlanTasksChunk(n) ==
    /\ planner = "plan_tasks" /\ generator = "streaming"
    /\ sent + n <= Len(llm_text)
    /\ LET chunk == Slice(llm_text, sent + 1, sent + n)
           lines == Split(buffer \o chunk, "\n")
       IN  /\ buffer' = lines[Len(lines)]
           /\ yielded' = yielded \o ParseEach(SubSeq(lines, 1, Len(lines) - 1))
    /\ sent' = sent + n
    /\ UNCHANGED <<planner, llm_text, seen_tasks, generator, schedulerVars>>

\* SimplePlanner.plan_tasks after the stream: what is left in the buffer is
\* parsed as the last line
PlanTasksEnd ==
    /\ planner = "plan_tasks" /\ generator = "streaming"
    /\ sent = Len(llm_text)
    /\ yielded' = yielded \o ParseEach(<<buffer>>)
    /\ generator' = "ended"
    /\ UNCHANGED <<planner, llm_text, sent, buffer, seen_tasks, schedulerVars>>

\* the sizes a chunk can have
ChunkSizes == 1..(MaxLines * 22)

PlannerNext ==
    \/ \E n \in ChunkSizes : StreamChunk(n)
    \/ StreamEnd
    \/ \E n \in ChunkSizes : PlanTasksChunk(n)
    \/ PlanTasksEnd

PlannerSpec == PlannerInit /\ [][PlannerNext]_vars

(***************************************************************************)
(* Properties of the scheduler.                                            *)
(***************************************************************************)
\* the step in which the tool of the task at position p is entered
Launches(p) ==
    /\ p \in DOMAIN futures /\ p \in DOMAIN futures'
    /\ ~Launched(p)
    /\ futures'[p].st = "running"

\* the step in which the tool of the task at position p returns or raises
Finishes(p) ==
    /\ p \in DOMAIN futures /\ p \in DOMAIN futures'
    /\ futures[p].st = "running"
    /\ futures'[p].st = "done"

InRound == pc \in {"next", "dispatch", "wait"}

\* the lists of indices an argument value of the model names
RefLists == {SortedSeq(S) : S \in SUBSET Idx}

\* ArgFor(refs) with each placeholder whose index is a key of results
\* replaced by that result, and every other placeholder as written
RECURSIVE ResolvedCat(_, _)
ResolvedCat(refs, results) ==
    IF refs = <<>> THEN <<>>
    ELSE LET n == Head(refs)
         IN  ArgText(n) \o (IF n \in DOMAIN results THEN results[n] ELSE ArgRef(n))
             \o ResolvedCat(Tail(refs), results)

Resolved(refs, results) ==
    IF refs = <<>> THEN ArgOf(0) ELSE ResolvedCat(refs, results)

RefSet(refs) == {refs[i] : i \in DOMAIN refs}

\* C1: a task's tool is entered only in a state in which every dependency of
\* the task is a key of the result map, for a task dispatched directly and
\* for one dispatched through the waiter.
C1_HappensBefore ==
    [][\A p \in Positions :
          Launches(p) =>
              \A d \in DepSet(processed_tasks[p]) : d \in DOMAIN task_results]_vars

\* a task with dependencies that was dispatched through the waiter has run
\* to completion
C1_Witness ==
    \E p \in DOMAIN futures :
        /\ futures[p].fn = "_schedule_pending_task"
        /\ processed_tasks[p].dependencies # <<>>
        /\ futures[p].st = "done"

\* C2: in one run the tool of an index is invoked at most once and the
\* result of an index is assigned at most once.
C2_SingleWrite ==
    \A i \in Idx : Count(invocations, i) <= 1 /\ Count(writes, i) <= 1

\* the dependencies of every task of the round were produced by an earlier
\* round or belong to a task of the plan with a smaller index
ValidPlan ==
    \A p \in DOMAIN processed_tasks :
        \A d \in DepSet(processed_tasks[p]) :
            \/ d \in DOMAIN _get_task_results(messages)
            \/ /\ d < processed_tasks[p].idx
               /\ \E q \in DOMAIN processed_tasks : processed_tasks[q].idx = d

\* C3: for a plan that is a valid DAG, in whatever order the planner yields
\* it and with any pool of at least one worker, schedule_tasks returns.
C3_Terminates ==
    (pc = "wait" /\ ValidPlan) ~> (pc = "idle")

C6_SortedByIdx ==
    \A i, j \in DOMAIN returned : i < j => returned[i].idx <= returned[j].idx

\* C7: at launch every placeholder whose index is a key of the result map is
\* replaced by the result stored at that moment, a placeholder whose index
\* is absent stays as written, and a placeholder that names a dependency of
\* the task is always replaced.
C7_ResolveAtLaunch ==
    [][\A p \in Positions :
          (Launches(p) /\ processed_tasks[p].tool \in ToolNames) =>
              \A k \in ArgKeys, refs \in RefLists :
                  processed_tasks[p].args[k] = ArgFor(refs) =>
                      /\ futures'[p].input[k] = Resolved(refs, task_results)
                      /\ \A n \in RefSet(refs) \cap DepSet(processed_tasks[p]) :
                            n \in DOMAIN task_results
                      /\ RefSet(refs) \subseteq DepSet(processed_tasks[p]) =>
                            Refs(futures'[p].input[k]) \subseteq
                                UNION {Refs(task_results[n]) : n \in RefSet(refs)}]_vars

\* a task was launched with "x${2}" resolved, and a task was launched with a
\* placeholder left as written
C7_Witness ==
    /\ \E p \in DOMAIN futures :
          /\ Launched(p)
          /\ processed_tasks[p].args["content"] = ArgFor(<<2>>)
          /\ 2 \in DepSet(processed_tasks[p])
          /\ futures[p].input["content"] # ArgFor(<<2>>)
    /\ \E p \in DOMAIN futures :
          /\ Launched(p)
          /\ processed_tasks[p].args["content"] = ArgFor(<<1>>)
          /\ futures[p].input["content"] = ArgFor(<<1>>)

\* the indices that can still get a result: those that have one, and those
\* of the tasks of the round whose dependencies can all get one
RECURSIVE Producible(_)
Producible(S) ==
    LET more == {processed_tasks[q].idx : q \in
                    {r \in DOMAIN processed_tasks : DepSet(processed_tasks[r]) \subseteq S}}
    IN  IF more \subseteq S THEN S ELSE Producible(S \cup more)

\* a task of the round has a dependency that is never satisfied
NeverSatisfied ==
    \E p \in DOMAIN processed_tasks :
        ~(DepSet(processed_tasks[p]) \subseteq Producible(DOMAIN task_results))

\* C8: when a dependency of a task is never satisfied, the scheduler fails
\* the run with a CycleOrMissingDep error.
C8_DetectsInvalidGraph ==
    (pc = "wait" /\ NeverSatisfied) ~> (error = "CycleOrMissingDep")

\* C9: a task whose idx is already a key of the result map the round starts
\* with is not dispatched: its tool is not invoked.
C9_SkipsSatisfied ==
    InRound =>
        \A p \in DOMAIN futures :
            processed_tasks[p].idx \in DOMAIN _get_task_results(messages)
                => ~Launched(p)

\* no task of the round so far carries index i
NotReplanned(i) ==
    \A q \in DOMAIN processed_tasks : processed_tasks[q].idx # i

C11_ReplanMode ==
    (round > 1 /\ node = "plan_and_schedule" /\ pc # "start") =>
        /\ needs_replan
        /\ planner_prompt.template = "REPLANNER_PROMPT_TEMPLATE"
        /\ {"results_text", "latest_response", "max_existing_idx"}
               \subseteq DOMAIN planner_prompt

\* the responses of the model that, trimmed and upper-cased, read REPLAN
ReplanResponses ==
    { <<"R", "E", "P", "L", "A", "N">>,
      <<" ", "r", "e", "p", "l", "a", "n", "\n">> }

\* C12: the controller goes from plan_and_schedule to join, from join to
\* the decision, and from the decision back to plan_and_schedule exactly
\* when the response, trimmed and upper-cased, is REPLAN; on any other
\* response it ends, and it never leaves the end.
C12_ControllerOrder ==
    [][/\ node = "plan_and_schedule" => node' \in {"plan_and_schedule", "join"}
       /\ node = "join" => node' \in {"join", "decide"}
       /\ (node = "decide" /\ node' # node) =>
             IF response' \in ReplanResponses
             THEN node' = "plan_and_schedule" /\ pc' = "start"
             ELSE node' = "end"
       /\ node = "end" => node' = "end"]_vars

\* the controller looped back on a response that needed trimming and
\* upper-casing, and the second round reached its decision
C12_Witness ==
    /\ round = 2
    /\ node = "decide"
    /\ response = <<" ", "r", "e", "p", "l", "a", "n", "\n">>

\* C13: every index executed in a round is greater than every index that
\* was executed in an earlier round.
C13_ReplanMonotone ==
    InRound =>
        \A p \in DOMAIN futures :
            Launched(p) =>
                \A i \in DOMAIN _get_task_results(messages) :
                    processed_tasks[p].idx > i

\* C19: a task of the sentinel join is not submitted to the pool, and no
\* message is returned for it.
C19_JoinFiltered ==
    /\ \A p \in DOMAIN futures : processed_tasks[p].tool # "join"
    /\ \A m \in DOMAIN returned : returned[m].name # "join"


(***************************************************************************)
(* Properties of the planners' generators, under PlannerSpec.              *)
(***************************************************************************)
Emitted == TasksOf(yielded)

PlanText == Split(llm_text, "\n")

\* what a generator yields when the whole text arrives as one chunk
Whole(text) ==
    IF planner = "stream" THEN Unseen(_parse_tasks(text), {})
    ELSE ParseEach(Split(text, "\n"))

\* what the generator's parser makes of one line alone: <<>> or <<task>>
LineYield(line) ==
    IF planner = "stream" THEN _parse_tasks(line) ELSE _parse_task(line)

\* C14: every task the plan parser emits has the index of every $N and ${N}
\* placeholder of its argument values among its dependencies, wherever in
\* the value the placeholder stands and however many there are.
C14_DependencyClosure ==
    \A i \in DOMAIN Emitted : \A a \in DOMAIN Emitted[i].args :
        Refs(Emitted[i].args[a].value) \subseteq SeqSet(Emitted[i].dependencies)

\* C15: no task reaches the scheduler with a dependency on itself or on a
\* later task (d >= T.idx).
C15_NoForwardEdges ==
    \A i \in DOMAIN Emitted : \A d \in SeqSet(Emitted[i].dependencies) :
        d < Emitted[i].idx

UniqueIdx ==
    \A i, j \in DOMAIN Emitted : i # j => Emitted[i].idx # Emitted[j].idx

\* C16: within one plan the planner yields at most one task per idx.
C16_UniqueIdx == UniqueIdx

\* Planner.stream alone keeps the indices distinct
C16_StreamUniqueIdx == planner = "stream" => UniqueIdx

ChunkIndependent ==
    /\ \A i \in DOMAIN yielded : \E l \in DOMAIN PlanText :
           yielded[i] = LineYield(PlanText[l])
    /\ generator = "ended" => yielded = Whole(llm_text)

\* C17: whatever the generator yielded is the parse of a whole line of the
\* response, and once the stream has ended the yielded sequence is the one
\* of the undivided text: one entry per non-blank line, in order.
C17_ChunkIndependent == ChunkIndependent

\* SimplePlanner.plan_tasks alone is independent of the chunk boundaries
C17_PlanTasksChunkIndependent == planner = "plan_tasks" => ChunkIndependent

\* C18: no task is emitted for a tool that is neither registered nor join.
C18_UnknownToolDropped ==
    \A i \in DOMAIN Emitted :
        Emitted[i].tool \in {<<name>> : name \in ToolNames \cup {"join"}}

\* the non-blank lines a parser makes no task of
Malformed(line) == Strip(line) # <<>> /\ LineYield(line) = <<>>

RECURSIVE WithoutMalformed(_)
WithoutMalformed(lines) ==
    IF lines = <<>> THEN <<>>
    ELSE (IF Malformed(Head(lines)) THEN <<>> ELSE <<Head(lines)>>)
         \o WithoutMalformed(Tail(lines))

MalformedIgnored ==
    (generator = "ended" /\ yielded = Whole(llm_text) /\ WithoutMalformed(PlanText) # <<>>) =>
        Emitted = TasksOf(Whole(JoinLines(WithoutMalformed(PlanText))))

\* C20: a malformed line yields no task and the tasks of the other lines
\* are what they are without it.
C20_MalformedDropped == MalformedIgnored

\* with checkpoint_3's _parse_task a malformed line changes nothing
C20_PlanTasksMalformedDropped == planner = "plan_tasks" => MalformedIgnored


(***************************************************************************)
(* Properties of the controller and the scheduler, continued.              *)
(***************************************************************************)
IsPrefix(a, b) == Len(a) <= Len(b) /\ SubSeq(b, 1, Len(a)) = a

Suffix(a, b) == SubSeq(b, Len(a) + 1, Len(b))

C22_ReturnsAfterAll ==
    [][(pc = "wait" /\ pc' = "idle") =>
          /\ DOMAIN futures = DOMAIN processed_tasks
          /\ \A p \in DOMAIN futures : futures[p].st = "done"
          /\ DOMAIN returned' = DOMAIN processed_tasks
          /\ \A p \in DOMAIN processed_tasks :
                /\ processed_tasks[p].idx \in DOMAIN task_results
                /\ returned'[p].idx = processed_tasks[p].idx
                /\ returned'[p].name = processed_tasks[p].tool
                /\ returned'[p].content = task_results[processed_tasks[p].idx]]_vars

\* schedule_tasks returned two messages, one of them for a task that waited
C22_Witness ==
    /\ node = "join"
    /\ Len(returned) = 2
    /\ \E p \in DOMAIN futures : futures[p].fn = "_schedule_pending_task"


\* C23: a round in which the planner yielded nothing ends without error,
\* with no tool message returned, and its join step emits the "no tasks"
\* summary.
C23_EmptyPlanSummary ==
    (node = "decide" /\ processed_tasks = <<>>) =>
        /\ error = "none"
        /\ returned = <<>>
        /\ messages[Len(messages)] = AIMessage(NoTasksSummary)


\* C24: an LLM failure ends the run with the error: a failure of the plan
\* stream reaches the caller (the run does not hang), and once the error is
\* out the controller takes no further step.
C24_LLMFailurePropagates ==
    /\ (pc = "raise") ~> (error = "LLMError")
    /\ [][error # "none" => UNCHANGED <<node, messages, round, response>>]_vars

\* the failures of the join call and of the decision call do reach the caller
C24_InvokeFailureEnds ==
    [][error # "none" => UNCHANGED <<node, messages, round, response>>]_vars


\* what _schedule_task leaves in the result map when it runs task against
\* the map results
Executed(task, results) ==
    LET out == ToolInvoke(task.tool,
                   IF task.tool \in ToolNames
                   THEN [k \in DOMAIN task.args |-> _resolve_arg(task.args[k], results)]
                   ELSE NoInput)
    IN  Put(results, task.idx, IF out.raised THEN ErrorMsg(out.val) ELSE out.val)

\* the waiting tasks run, first come first served, as long as one is ready
RECURSIVE RunReady(_, _)
RunReady(waiting, results) ==
    IF \A w \in DOMAIN waiting : NotReady(waiting[w], results) THEN results
    ELSE LET w == CHOOSE x \in DOMAIN waiting :
                      /\ ~NotReady(waiting[x], results)
                      /\ \A y \in 1..(x - 1) : NotReady(waiting[y], results)
         IN  RunReady(SubSeq(waiting, 1, w - 1) \o SubSeq(waiting, w + 1, Len(waiting)),
                      Executed(waiting[w], results))

\* The interleaving in which every work item runs to its end as soon as it
\* can: a ready task before the next task is yielded, a waiting task as soon
\* as its dependencies are there.  The result map at the end.
RECURSIVE Serial(_, _, _)
Serial(tasks, waiting, results) ==
    IF tasks = <<>> THEN RunReady(waiting, results)
    ELSE LET task == Head(tasks)
         IN  IF NotReady(task, results)
             THEN Serial(Tail(tasks), Append(waiting, task), results)
             ELSE Serial(Tail(tasks), <<>>,
                         RunReady(waiting, Executed(task, results)))

SerialMessages(tasks, seed) == ToolMessagesOf(tasks, Serial(tasks, <<>>, seed))

\* C25: for one sequence of planned tasks the messages that schedule_tasks
\* returns are the same in every interleaving of the workers: whenever it
\* returns, it returns what the interleaving returns in which every work
\* item runs to its end as soon as it can.
C25_InterleavingIndependent ==
    [][(pc = "wait" /\ pc' = "idle") =>
          returned' = SerialMessages(processed_tasks, _get_task_results(messages))]_vars

\* the tasks of the round have pairwise distinct indices, none of them is in
\* the log already, and every placeholder of a task names a dependency
ClosedPlan ==
    /\ \A p, q \in DOMAIN processed_tasks :
          p # q => processed_tasks[p].idx # processed_tasks[q].idx
    /\ \A p \in DOMAIN processed_tasks :
          /\ processed_tasks[p].idx \notin DOMAIN _get_task_results(messages)
          /\ \A k \in DOMAIN processed_tasks[p].args :
                Refs(processed_tasks[p].args[k]) \subseteq DepSet(processed_tasks[p])

\* for the plans with dependency closure and distinct, new indices the
\* returned messages do not depend on the interleaving
C25_ClosedPlanIndependent ==
    [][(pc = "wait" /\ pc' = "idle" /\ ClosedPlan) =>
          returned' = SerialMessages(processed_tasks, _get_task_results(messages))]_vars


\* the indices of the explicit deps clause of a line
ExplicitOf(line) ==
    LET m == SearchDeps(Strip(line), 1)
    IN  IF m.found THEN SeqSet(ExplicitDeps(Split(m.group, ","))) ELSE {}

\* C26: the dependency list of a task parsed from a line is the ascending
\* list, without duplicates, of the indices the parser captured from the
\* argument values and the indices of the line's explicit deps clause.
C26_DepsSortedUnique ==
    \A i \in DOMAIN yielded : \A l \in DOMAIN PlanText :
        (yielded[i] # <<>> /\ yielded[i] = LineYield(PlanText[l])) =>
            yielded[i][1].dependencies =
                SortedSeq(SeqSet(ArgDeps(yielded[i][1].args)) \cup ExplicitOf(PlanText[l]))


\* the tasks are a chain 1, 2, ..., N in plan order: each depends on the one
\* before it, and none of them has a result in the log yet
IsChain(tasks) ==
    /\ \A p \in DOMAIN tasks :
          /\ tasks[p].idx = p
          /\ DepSet(tasks[p]) = IF p = 1 THEN {} ELSE {p - 1}
    /\ \A p \in DOMAIN tasks : p \notin DOMAIN _get_task_results(messages)

Running == {p \in DOMAIN futures : futures[p].st = "running"}

\* C27: while a chain plan is scheduled at most one tool runs at a time and
\* task i+1 is started only after task i has ended and its result is
\* written; the messages returned are those of 1, 2, ..., N in that order.
C27_ChainSerial ==
    /\ [](/\ node = "plan_and_schedule"
          /\ pc \in {"next", "dispatch", "wait", "raise"}
          /\ IsChain(processed_tasks)
          => /\ Cardinality(Running) <= 1
             /\ \A p \in DOMAIN futures :
                   (Launched(p) /\ p > 1) =>
                       /\ futures[p - 1].st = "done"
                       /\ (p - 1) \in DOMAIN task_results)
    /\ [][(pc = "wait" /\ pc' = "idle" /\ IsChain(processed_tasks)) =>
             /\ Len(returned') = Len(processed_tasks)
             /\ \A m \in DOMAIN returned' : returned'[m].idx = m]_vars

\* a chain of two tasks was scheduled and schedule_tasks returned
C27_Witness ==
    /\ node = "join" /\ round = 1
    /\ Len(processed_tasks) = 2
    /\ \A p \in DOMAIN processed_tasks :
          /\ processed_tasks[p].idx = p
          /\ DepSet(processed_tasks[p]) = IF p = 1 THEN {} ELSE {p - 1}
    /\ Len(returned) = 2
    /\ futures[2].fn = "_schedule_pending_task"


\* two tasks of the round of which neither depends on the other
Independent(p, q) ==
    /\ p # q
    /\ processed_tasks[p].idx # processed_tasks[q].idx
    /\ processed_tasks[p].idx \notin DepSet(processed_tasks[q])
    /\ processed_tasks[q].idx \notin DepSet(processed_tasks[p])

C29_UnboundedReplan ==
    /\ [][(node' = "end" /\ node # "end") =>
              (node = "decide" /\ Decision(response') # REPLAN)]_vars
    /\ [][(node = "decide" /\ node' # node /\ Decision(response') = REPLAN) =>
              /\ node' = "plan_and_schedule" /\ pc' = "start"
              /\ round' = round + 1
              /\ error' = "none"]_vars
    /\ []((node = "decide" /\ error = "none" /\ round < MaxRounds) =>
              ENABLED Replan)

\* the decision step answered REPLAN in every round but the last one, whose
\* answer ended the run
C29_Witness ==
    /\ round = MaxRounds
    /\ node = "end"
    /\ Decision(response) # REPLAN


\* C30: every task the planner yields gets one work item, submitted by the
\* loop body and by nothing else.  A task that is ready when it arrives is
\* submitted as _schedule_task and is never in the waiter's loop; a task with
\* a missing dependency is submitted as _schedule_pending_task, whose worker
\* sleeps while a dependency is missing and runs the task in the same work
\* item once none is, after which the work item ends.
C30_SubmittedOnce ==
    /\ [](pc \in {"next", "dispatch", "wait", "raise"} =>
            /\ Len(futures) = Len(processed_tasks) - (IF pc = "dispatch" THEN 1 ELSE 0)
            /\ \A p \in DOMAIN futures :
                  /\ futures[p].fn \in {"_schedule_task", "_schedule_pending_task"}
                  /\ futures[p].fn = "_schedule_task" => futures[p].st # "waiting")
    /\ [][pc # "start" =>
            /\ \/ futures' = futures
               \/ /\ Len(futures') = Len(futures)
                  /\ \E p \in DOMAIN futures :
                        \A q \in DOMAIN futures \ {p} : futures'[q] = futures[q]
               \/ /\ pc = "dispatch"
                  /\ Len(futures') = Len(futures) + 1
                  /\ SubSeq(futures', 1, Len(futures)) = futures
                  /\ futures'[Len(futures')].st = "queued"
                  /\ (futures'[Len(futures')].fn = "_schedule_pending_task")
                        <=> NotReady(processed_tasks[Len(futures')], task_results)
            /\ \A p \in DOMAIN futures :
                  (p \in DOMAIN futures' /\ futures'[p] # futures[p]) =>
                      /\ futures'[p].fn = futures[p].fn
                      /\ <<futures[p].st, futures'[p].st>> \in
                            IF futures[p].fn = "_schedule_task"
                            THEN {<<"queued", "running">>, <<"running", "done">>}
                            ELSE {<<"queued", "waiting">>, <<"waiting", "running">>,
                                  <<"running", "done">>}
                      /\ (futures[p].st = "waiting") =>
                            ~NotReady(processed_tasks[p], task_results)]_vars
    /\ [][\A p \in DOMAIN futures :
            (futures[p].st = "waiting" /\ NotReady(processed_tasks[p], task_results)
                /\ p \in DOMAIN futures' /\ pc # "start")
                => futures'[p].st = "waiting"]_vars

\* a round in which one task went to the pool directly and another one was
\* run by its waiter
C30_Witness ==
    /\ pc = "wait"
    /\ \E p, q \in DOMAIN futures :
          /\ futures[p].fn = "_schedule_task" /\ futures[p].st = "done"
          /\ futures[q].fn = "_schedule_pending_task" /\ futures[q].st = "done"
          /\ processed_tasks[p].idx \in DepSet(processed_tasks[q])


\* the task the format describes for a line without arguments
NoArgsTask(i, deps) ==
    [idx |-> i, tool |-> <<"gen">>, args |-> <<>>, dependencies |-> deps]

\* a line without arguments that opens the response becomes its task
NoArgsParsed ==
    (generator = "ended" /\ PlanText # <<>>) =>
        /\ PlanText[1] = NoArgsLine(1) =>
              (Emitted # <<>> /\ Emitted[1] = NoArgsTask(1, <<>>))
        /\ PlanText[1] = NoArgsLine(2) \o DepsClause(1) =>
              (Emitted # <<>> /\ Emitted[1] = NoArgsTask(2, <<1>>))

\* C31: a plan line with an empty argument list is a task: the parser emits
\* a Task with the line's idx and tool, no args, and the dependencies of the
\* deps clause only.
C31_EmptyArgsValid == NoArgsParsed

\* Planner._parse_tasks of the package, given the whole line, makes the
\* task of it; checkpoint_3's _parse_task does not
C31_ParseTasksEmptyArgs ==
    (planner = "stream" /\ PlanText # <<>>) =>
        /\ PlanText[1] = NoArgsLine(1) =>
              _parse_tasks(PlanText[1]) = <<NoArgsTask(1, <<>>)>>
        /\ PlanText[1] = NoArgsLine(2) \o DepsClause(1) =>
              _parse_tasks(PlanText[1]) = <<NoArgsTask(2, <<1>>)>>


\* the indices of the entries, in the order they are rendered
EntryIdx(entries) == [i \in DOMAIN entries |-> entries[i].idx]

\* the indices for which the scheduler put a message into the log, ascending
LoggedIdx == SortedSeq(DOMAIN _get_task_results(messages))

\* C32: when the join step runs, the results text it builds has exactly one
\* "Task {idx}: {content}" entry for each index with a task message in the
\* log of all rounds, in ascending numeric order of idx.
C32_JoinRendersAll ==
    node = "join" => EntryIdx(results_text(messages)) = LoggedIdx

\* Joiner.join, which the controller does not call, renders them all
C32_JoinerRendersAll ==
    node = "join" => EntryIdx(JoinerSummary(messages)) = LoggedIdx


\* every dependency of every task of the round was there before the task:
\* its result is in the log or a task with that index was yielded earlier
DepsFirst ==
    \A p \in DOMAIN processed_tasks :
        \A d \in DepSet(processed_tasks[p]) :
            \/ d \in DOMAIN _get_task_results(messages)
            \/ \E q \in 1..(p - 1) : processed_tasks[q].idx = d

\* the waiters that hold a worker and miss a dependency
Blocked ==
    {p \in DOMAIN futures :
        futures[p].st = "waiting" /\ NotReady(processed_tasks[p], task_results)}

Missing(p) == DepSet(processed_tasks[p]) \ DOMAIN task_results

\* every worker is held by a blocked waiter and a task one of them waits
\* for is in the queue
Starved ==
    /\ Cardinality(Blocked) = max_workers
    /\ \E p \in Blocked, q \in DOMAIN futures :
          /\ futures[q].st = "queued"
          /\ processed_tasks[q].idx \in Missing(p)

\* C33: waiters hold workers while they wait, but when every dependency is
\* yielded before its dependents the pool is never starved: the workers are
\* never all held by blocked waiters while a task one of them waits for is
\* queued, and every missing dependency of a blocked waiter belongs to an
\* earlier task that has a worker.
C33_NoPoolStarvation ==
    (InRound /\ DepsFirst) =>
        /\ ~Starved
        /\ \A p \in Blocked : \A d \in Missing(p) :
              \E q \in 1..(p - 1) :
                  /\ processed_tasks[q].idx = d
                  /\ futures[q].st \in {"waiting", "running"}

\* every worker of the pool is taken, one of them by a waiter that polls
\* for the result of a task that is running
C33_Witness ==
    /\ InRound /\ DepsFirst
    /\ Busy = max_workers
    /\ \E p \in Blocked, q \in DOMAIN futures :
          /\ futures[q].st = "running"
          /\ processed_tasks[q].idx \in Missing(p)


\* C34: while schedule_tasks runs, the key set of the result map only
\* grows, so a task that the loop found ready, or that its waiter found
\* ready, is ready when its tool is invoked and stays so.
C34_ResultsGrowOnly ==
    /\ [][pc # "start" => DOMAIN task_results \subseteq DOMAIN task_results']_vars
    /\ [](InRound =>
            \A p \in DOMAIN futures :
                (futures[p].fn = "_schedule_task" \/ Launched(p)) =>
                    ~NotReady(processed_tasks[p], task_results))
    /\ [][\A p \in Positions :
            Launches(p) => ~NotReady(processed_tasks[p], task_results)]_vars

\* a task with a dependency was found ready by the loop and its tool was
\* invoked after the map had got another key
C34_Witness ==
    /\ InRound
    /\ \E p \in DOMAIN futures :
          /\ futures[p].fn = "_schedule_task"
          /\ processed_tasks[p].dependencies # <<>>
          /\ Launched(p)
          /\ \E i \in DOMAIN task_results : i \notin DepSet(processed_tasks[p])


\* the indices from which a dependency path of tasks of the round leads to
\* an index of S
RECURSIVE UpTo(_)
UpTo(S) ==
    LET more == UNION {DepSet(processed_tasks[q]) :
                          q \in {r \in DOMAIN processed_tasks : processed_tasks[r].idx \in S}}
    IN  IF more \subseteq S THEN S ELSE UpTo(S \cup more)

\* a dependency path leads from the task at position f to the one at p
PathFrom(f, p) == processed_tasks[f].idx \in UpTo(DepSet(processed_tasks[p]))

\* the result map without the entry of index i
WithoutKey(results, i) == [x \in DOMAIN results \ {i} |-> results[x]]

\* the arguments the task at p is launched with do not depend on what the
\* map holds for the task at f: the outcome of f's tool, raised or returned,
\* does not reach them
InputIndependentOf(p, f) ==
    \A k \in DOMAIN processed_tasks[p].args :
        futures'[p].input[k] =
            _resolve_arg(processed_tasks[p].args[k],
                         WithoutKey(task_results, processed_tasks[f].idx))

\* the tasks of the round are tasks the plan parsers make: a value that
\* starts with "$" has the index after it among the dependencies
ParserMade ==
    \A p \in DOMAIN processed_tasks : \A k \in DOMAIN processed_tasks[p].args :
        LET value == processed_tasks[p].args[k]
        IN  (value # <<>> /\ value[1] = "$") =>
                SeqSet(ArgDeps(<<[key |-> k, value |-> value]>>))
                    \subseteq DepSet(processed_tasks[p])

NoInterference ==
    \A p \in Positions, f \in DOMAIN processed_tasks :
        (/\ Launches(p) /\ processed_tasks[p].tool \in ToolNames
         /\ f # p /\ processed_tasks[f].tool = "fail"
         /\ ~PathFrom(f, p))
            => InputIndependentOf(p, f)

\* C35: whether the tool of a task F raises or returns makes no difference
\* to a task that no dependency path from F reaches: it is launched with
\* arguments, and so gets a result, in which the outcome of F has no part.
C35_FailureIsolated == [][ParserMade => NoInterference]_vars

\* every placeholder of every task of the round names a dependency of the task
Closed == \A p \in DOMAIN processed_tasks : \A k \in DOMAIN processed_tasks[p].args :
              Refs(processed_tasks[p].args[k]) \subseteq DepSet(processed_tasks[p])

\* when every placeholder is a dependency, the failure stays with the
\* dependents of the failed task
C35_ClosedFailureIsolated == [][Closed => NoInterference]_vars


\* SimpleScheduler.schedule_tasks: every task is run to its end on the
\* calling thread when it arrives.  _queue_task polls on that same thread,
\* so a task that arrives before one of its dependencies never starts and
\* nothing after it runs: [results, returns].
RECURSIVE SimpleRun(_, _)
SimpleRun(tasks, results) ==
    IF tasks = <<>> THEN [results |-> results, returns |-> TRUE]
    ELSE IF NotReady(Head(tasks), results)
    THEN [results |-> results, returns |-> FALSE]
    ELSE SimpleRun(Tail(tasks), Executed(Head(tasks), results))

\* the list SimpleScheduler.schedule_tasks returns
SimpleMessages(tasks, seed) == ToolMessagesOf(tasks, SimpleRun(tasks, seed).results)

SameAsSimple ==
    LET seed == _get_task_results(messages)
        simple == SimpleRun(processed_tasks, seed)
    IN  /\ simple.returns
        /\ task_results = simple.results
        /\ returned' = SimpleMessages(processed_tasks, seed)

\* C36: for a plan whose tasks arrive with every dependency before its
\* dependents, the scheduler with the thread pool and the waiters ends with
\* the result map, and returns the messages, of the sequential
\* SimpleScheduler on the same tasks and the same log.
C36_RefinesSimple ==
    [][(pc = "wait" /\ pc' = "idle" /\ DepsFirst /\ ParserMade) => SameAsSimple]_vars

\* it does for the plans whose placeholders are dependencies and whose
\* indices are distinct and new
C36_ClosedRefinesSimple ==
    [][(pc = "wait" /\ pc' = "idle" /\ DepsFirst /\ ClosedPlan) => SameAsSimple]_vars


\* C37: when the plan stream fails while schedule_tasks consumes it, the
\* error leaves schedule_tasks only when every work item submitted so far
\* has ended, nothing is returned for the round, and the log is the one the
\* round began with: no step of the round before the failure, and no step
\* after it, changes the log.
C37_StreamFailureLeavesLog ==
    /\ [][(pc = "raise" /\ pc' # "raise") =>
              /\ \A p \in DOMAIN futures : futures[p].st = "done"
              /\ pc' = "failed" /\ error' = "LLMError"
              /\ futures' = futures]_vars
    /\ [][(pc \in {"raise", "failed"} \/ pc' = "raise") =>
              /\ messages' = messages
              /\ returned' = returned
              /\ node' = "plan_and_schedule"]_vars
    /\ [][(node = "plan_and_schedule" /\ node' = "plan_and_schedule") =>
              messages' = messages]_vars

\* the stream failed after a task had been submitted; the task has run and
\* the error is out, with the query as the only message of the log
C37_Witness ==
    /\ pc = "failed" /\ error = "LLMError"
    /\ futures # <<>>
    /\ \A p \in DOMAIN futures : futures[p].st = "done"
    /\ DOMAIN task_results # {}
    /\ Len(messages) = 1


\* C38: resolving the arguments does not touch the task: no step of a round
\* changes a task that was taken from the planner, the resolved values are
\* the input of the tool only, and the message that is returned for a task
\* carries the task's idx, its tool name and its args as planned,
\* placeholders included.
C38_ArgsUntouched ==
    /\ [][pc # "start" =>
              \A p \in DOMAIN processed_tasks :
                  /\ p \in DOMAIN processed_tasks'
                  /\ processed_tasks'[p] = processed_tasks[p]]_vars
    /\ [][(pc = "wait" /\ pc' = "idle") =>
              \A m \in DOMAIN returned' :
                  \E p \in DOMAIN processed_tasks :
                      /\ returned'[m].idx = processed_tasks[p].idx
                      /\ returned'[m].name = processed_tasks[p].tool
                      /\ returned'[m].args = processed_tasks[p].args]_vars
    /\ [][\A p \in Positions :
              (Launches(p) /\ processed_tasks[p].tool \in ToolNames) =>
                  \A k \in DOMAIN processed_tasks[p].args :
                      Refs(processed_tasks[p].args[k]) \subseteq
                          Refs(processed_tasks'[p].args[k])]_vars

\* a task whose placeholder was replaced by a result for the tool's input
\* has its message returned with the placeholder in the args
C38_Witness ==
    /\ node = "join"
    /\ \E p \in DOMAIN returned :
          /\ p \in DOMAIN futures
          /\ returned[p].idx = processed_tasks[p].idx
          /\ Refs(returned[p].args["content"]) # {}
          /\ futures[p].input # NoInput
          /\ Refs(futures[p].input["content"]) = {}


\* the tasks of the round whose tool name is not in the tool table
Unregistered == {p \in DOMAIN processed_tasks : processed_tasks[p].tool \notin ToolNames}

\* str(KeyError(name)) behind "ERROR: "
LookupError(name) == ErrorMsg(<<"'", name, "'">>)

\* C39: a task whose tool name is not in the tool table does not stop the
\* scheduler.  Its work item always ends, the failed lookup is stored as
\* "ERROR: ..." under its idx and raises nothing to the run, from then on
\* the idx is a key of the result map, so that dependents are ready, and
\* the message returned for the task has the error as content.
C39_UnknownToolFailsSoft ==
    /\ [][\A p \in Positions :
              (Finishes(p) /\ p \in Unregistered) =>
                  /\ task_results'[processed_tasks[p].idx] =
                         LookupError(processed_tasks[p].tool)
                  /\ error' = "none" /\ pc' = pc /\ node' = node]_vars
    /\ [](InRound =>
            \A p \in Unregistered \cap DOMAIN futures :
                /\ futures[p].st = "running" => ENABLED FinishTask(p)
                /\ futures[p].st = "done" =>
                      /\ processed_tasks[p].idx \in DOMAIN task_results
                      /\ \A q \in DOMAIN futures :
                            (/\ futures[q].st = "waiting"
                             /\ DepSet(processed_tasks[q]) = {processed_tasks[p].idx})
                                => ENABLED WaiterProceed(q))
    /\ [][(pc = "wait" /\ pc' = "idle") =>
              \A p \in Unregistered :
                  /\ returned'[p].name = processed_tasks[p].tool
                  /\ returned'[p].idx = processed_tasks[p].idx
                  /\ (\A q \in DOMAIN processed_tasks :
                          q # p => processed_tasks[q].idx # processed_tasks[p].idx)
                        => returned'[p].content = LookupError(processed_tasks[p].tool)]_vars

\* the message of a task without a registered tool was returned with the
\* error, and a task that depends on it has run with the error as argument
C39_Witness ==
    /\ node = "join"
    /\ \E p \in Unregistered, q \in DOMAIN futures :
          /\ p \in DOMAIN returned
          /\ returned[p].content = LookupError(processed_tasks[p].tool)
          /\ processed_tasks[p].idx \in DepSet(processed_tasks[q])
          /\ futures[q].fn = "_schedule_pending_task"
          /\ futures[q].st = "done"
          /\ IsError(task_results[processed_tasks[p].idx])

=============================================================================
